---- MODULE Spec2Model ----
(***************************************************************************)
(* Price resolution (getCryptoPriceExecute) and batch resolution           *)
(* (getMultiplePricesExecute) of the Hedera Chainlink oracle plugin.       *)
(*                                                                         *)
(* A tool invocation is a sequence of synchronous segments separated by    *)
(* its awaits: the latestRoundData contract call, the decimals contract    *)
(* call, the CoinGecko fetch and the batch's setTimeout.  Each action is   *)
(* the arrival of one awaited response followed by everything the code     *)
(* does until its next await (or its return/throw).                        *)
(*                                                                         *)
(* Numbers: a price with 6 decimals is the integer number of millionths.   *)
(* Error and note texts are sequences of fragments (the pieces of the      *)
(* template literal), so that "the message includes X" is checkable.       *)
(***************************************************************************)
EXTENDS Integers, Sequences, FiniteSets, TLC

(* ------------------------------------------------------------------ *)
(* Bounds of the model                                                 *)
(* ------------------------------------------------------------------ *)

\* longest list of pairs handed to getMultiplePricesExecute
MaxPairs == 3

(* ------------------------------------------------------------------ *)
(* Static tables                                                       *)
(* ------------------------------------------------------------------ *)

PRICE_FEED_CONTRACTS ==
  [ mainnet |->
      [ p \in {"HBAR/USD", "BTC/USD", "ETH/USD", "USDT/USD", "USDC/USD", "DAI/USD", "LINK/USD"} |->
          CASE p = "HBAR/USD" -> "0xAF685FB45C12b92b5054ccb9313e135525F9b5d5"
            [] p = "BTC/USD"  -> "0xaD01E27668658Cc8c1Ce6Ed31503D75F31eEf480"
            [] p = "ETH/USD"  -> "0xd2D2CB0AEb29472C3008E291355757AD6225019e"
            [] p = "USDT/USD" -> "0x8F4978D9e5eA44bF915611b73f45003c61f1BC79"
            [] p = "USDC/USD" -> "0x2b358642c7C37b6e400911e4FE41770424a7349F"
            [] p = "DAI/USD"  -> "0x64d5B38ae9f06b77F9A49Dd4d0a7f8dbd6d52e05"
            [] p = "LINK/USD" -> "0xB006e5ED0B9CfF64BAD53b47582FcE3c885EA4b2" ],
    testnet |->
      [ p \in {"HBAR/USD", "BTC/USD", "ETH/USD", "DAI/USD", "LINK/USD", "USDC/USD", "USDT/USD"} |->
          CASE p = "HBAR/USD" -> "0x59bC155EB6c6C415fE43255aF66EcF0523c92B4a"
            [] p = "BTC/USD"  -> "0x058fE79CB5775d4b167920Ca6036B824805A9ABd"
            [] p = "ETH/USD"  -> "0xb9d461e0b962aF219866aDfA7DD19C52bB9871b9"
            [] p = "DAI/USD"  -> "0xdA2aBF7C90aDC73CDF5cA8d720B87bD5F5863389"
            [] p = "LINK/USD" -> "0xF111b70231E89D69eBC9f6C9208e9890383Ef432"
            [] p = "USDC/USD" -> "0xb632a7e7e02d76c0Ce99d9C62c7a2d1B5F92B6B5"
            [] p = "USDT/USD" -> "0x06823de8E77d708C4cB72Cbf04495D67afF4Bd37" ] ]

\* (variant: the table without LINK)
COINGECKO_IDS_WithoutLINK ==
  [ s \in {"HBAR", "BTC", "ETH", "USDC", "USDT", "DAI"} |->
      CASE s = "HBAR" -> "hedera-hashgraph"
        [] s = "BTC"  -> "bitcoin"
        [] s = "ETH"  -> "ethereum"
        [] s = "USDC" -> "usd-coin"
        [] s = "USDT" -> "tether"
        [] s = "DAI"  -> "dai" ]

COINGECKO_IDS ==
  [ s \in {"HBAR", "BTC", "ETH", "USDC", "USDT", "DAI", "LINK"} |->
      CASE s = "HBAR" -> "hedera-hashgraph"
        [] s = "BTC"  -> "bitcoin"
        [] s = "ETH"  -> "ethereum"
        [] s = "USDC" -> "usd-coin"
        [] s = "USDT" -> "tether"
        [] s = "DAI"  -> "dai"
        [] s = "LINK" -> "chainlink" ]

NETWORK_CONFIGS ==
  [ mainnet |-> [network |-> "mainnet", rpcEndpoint |-> "https://mainnet.hashio.io/api", chainId |-> "295629"],
    testnet |-> [network |-> "testnet", rpcEndpoint |-> "https://testnet.hashio.io/api", chainId |-> "296"] ]

\* the quote currencies the tool's prompt documents
SupportedQuotes == {"USD", "USDC"}

(* ------------------------------------------------------------------ *)
(* Strings                                                             *)
(* ------------------------------------------------------------------ *)

\* String.prototype.toLowerCase on the symbols of the model
toLowerCase(s) ==
  CASE s = "USD" -> "usd"
    [] s = "EUR" -> "eur"
    [] s = "XYZ" -> "xyz"
    [] s = "BTC" -> "btc"
    [] s = "HBAR" -> "hbar"
    [] s = "LINK" -> "link"
    [] OTHER -> s

\* String.prototype.toUpperCase on the symbols of the model
toUpperCase(s) ==
  CASE s = "usd" -> "USD"
    [] s = "eur" -> "EUR"
    [] s = "xyz" -> "XYZ"
    [] s = "btc" -> "BTC"
    [] s = "hbar" -> "HBAR"
    [] s = "link" -> "LINK"
    [] OTHER -> s

\* String.prototype.trim on the symbols of the model (" " is the one
\* whitespace-only string)
trim(s) == IF s = " " THEN "" ELSE s

\* the key `${base}/${quote}`
PairLabel(b, q) == b \o "/" \o q

\* sub occurs in msg as a run of consecutive fragments
Includes(msg, sub) ==
  \E k \in 0..(Len(msg) - Len(sub)) :
    \A j \in 1..Len(sub) : msg[k + j] = sub[j]

(* ------------------------------------------------------------------ *)
(* Numbers                                                             *)
(* ------------------------------------------------------------------ *)

RECURSIVE Pow10(_)
Pow10(n) == IF n <= 0 THEN 1 ELSE 10 * Pow10(n - 1)

Abs(n) == IF n < 0 THEN -n ELSE n

\* Number((n / 10^d).toFixed(6)), in millionths: the nearest multiple of
\* 10^-6, magnitude first and sign after as toFixed does it.  Every |n| of
\* the model is below 5 * 10^8, so n / 10^d rounds to 0 once d > 14.
ToFixed6(n, d) ==
  IF d <= 6 THEN n * Pow10(6 - d)
  ELSE IF d > 14 THEN 0
  ELSE LET m == (2 * Abs(n) + Pow10(d - 6)) \div (2 * Pow10(d - 6))
       IN  IF n < 0 THEN -m ELSE m

(* ------------------------------------------------------------------ *)
(* The ledger client and network detection                             *)
(* ------------------------------------------------------------------ *)

\* What the code reads of a client: whether it is there at all, its
\* operatorAccountId (and the account number), whether its string form
\* mentions 'mainnet' or '295629', and whether toString() throws.
NoClient ==
  [present |-> FALSE, hasOperator |-> FALSE, accountNum |-> 0,
   strMainnet |-> FALSE, toStringThrows |-> FALSE]

Clients ==
  {NoClient} \cup
  [present : {TRUE}, hasOperator : {TRUE}, accountNum : {1, 2, 999, 1000},
   strMainnet : BOOLEAN, toStringThrows : BOOLEAN] \cup
  [present : {TRUE}, hasOperator : {FALSE}, accountNum : {0},
   strMainnet : BOOLEAN, toStringThrows : BOOLEAN]

\* (variant: no try/catch; the error of toString() leaves the function)
detectNetworkUncaught(c) ==
  IF ~c.present THEN NETWORK_CONFIGS.testnet
  ELSE IF c.hasOperator /\ c.accountNum >= 2 /\ c.accountNum < 1000
       THEN NETWORK_CONFIGS.mainnet
  ELSE IF c.toStringThrows
       THEN [network |-> "testnet", rpcEndpoint |-> "thrown", chainId |-> "thrown"]
  ELSE IF c.strMainnet THEN NETWORK_CONFIGS.mainnet
  ELSE NETWORK_CONFIGS.testnet

\* the earlier revision: the client's string form only
detectNetworkByString(c) ==
  IF ~c.present THEN NETWORK_CONFIGS.testnet
  ELSE IF c.toStringThrows THEN NETWORK_CONFIGS.testnet
  ELSE IF c.strMainnet THEN NETWORK_CONFIGS.mainnet
  ELSE NETWORK_CONFIGS.testnet

\* the later revision: the operator's account number first, then the
\* string form
detectNetwork(c) ==
  IF ~c.present THEN NETWORK_CONFIGS.testnet
  ELSE IF c.hasOperator /\ c.accountNum >= 2 /\ c.accountNum < 1000
       THEN NETWORK_CONFIGS.mainnet
  ELSE IF c.toStringThrows THEN NETWORK_CONFIGS.testnet
  ELSE IF c.strMainnet THEN NETWORK_CONFIGS.mainnet
  ELSE NETWORK_CONFIGS.testnet

(* ------------------------------------------------------------------ *)
(* Responses of the collaborators                                      *)
(* ------------------------------------------------------------------ *)

\* ContractCallQuery.execute + decodeFunctionResult("latestRoundData"):
\* the query rejects (err is its message), the bytes do not decode, or
\* five values come back.  answer is an int256; updatedAtValidDate tells
\* whether updatedAt * 1000 is a time value Date can represent (toISOString
\* throws a RangeError otherwise).
NoRound ==
  [kind |-> "none", err |-> "", roundId |-> 0, answer |-> 0, updatedAtValidDate |-> TRUE]

Answers == {-16, 0, 1, 16, 1234}

LrdResponses ==
  [kind : {"throw"}, err : {"timeout", "CONTRACT_REVERT_EXECUTED"}, roundId : {0},
   answer : {0}, updatedAtValidDate : {TRUE}] \cup
  [kind : {"malformed"}, err : {"could not decode result data"}, roundId : {0},
   answer : {0}, updatedAtValidDate : {TRUE}] \cup
  [kind : {"ok"}, err : {""}, roundId : {7}, answer : Answers,
   updatedAtValidDate : BOOLEAN]

\* the decimals() read: a uint8 when it decodes
DecimalsValues == {0, 7, 8, 18, 19}

DecResponses ==
  [kind : {"throw"}, err : {"timeout", "CONTRACT_REVERT_EXECUTED"}, decimals : {0}] \cup
  [kind : {"malformed"}, err : {"could not decode result data"}, decimals : {0}] \cup
  [kind : {"ok"}, err : {""}, decimals : DecimalsValues]

\* fetch + response.json(): fetch rejects, the status is not ok, the body
\* is not JSON, the body lacks data[baseId][quote], or it holds a number.
\* price is in units of 10^-7, so that toFixed(6) has something to round
\* (14 rounds down, 16 rounds up).
HttpPrices == {-16, 0, 14, 16, 250000000}

NoHttp == [kind |-> "none", price |-> 0]

HttpResponses ==
  [kind : {"network_error", "status", "bad_json", "missing"}, price : {0}] \cup
  [kind : {"price"}, price : HttpPrices]

HttpErrorMessage(resp, b, q) ==
  CASE resp.kind = "network_error" -> <<"fetch failed">>
    [] resp.kind = "status" -> <<"CoinGecko API request failed with status: ", "429">>
    [] resp.kind = "bad_json" -> <<"Unexpected token < in JSON">>
    [] OTHER -> <<"Price data not found for ", PairLabel(b, q), " in CoinGecko response">>

(* ------------------------------------------------------------------ *)
(* What a price call returns or throws                                 *)
(* ------------------------------------------------------------------ *)

\* keys: the properties the returned object has; a property outside keys
\* is absent and its field below is only a filler.
NoOut ==
  [kind |-> "none", keys |-> {}, base |-> "", quote |-> "", price |-> 0,
   source |-> "", contractAddress |-> "", roundId |-> 0, decimals |-> 0,
   note |-> <<>>, originalError |-> <<>>, message |-> <<>>]

Thrown(msg) == [NoOut EXCEPT !.kind = "err", !.message = msg]

(* ------------------------------------------------------------------ *)
(* getCryptoPriceExecute: the frame of one call                        *)
(* ------------------------------------------------------------------ *)

\* pc is the await the call is suspended at ("lrd", "dec", "http"), or
\* "returned" once it has returned or thrown (out).  roundData and httpResp
\* are the responses received, decimals the decoded decimals once
\* hasDecimals, scError and httpError the messages of the
\* errors caught (`error`, `fallbackError`).  scCalls and httpCalls count
\* the contract queries and the HTTP requests the call has issued.
NoFrame ==
  [pc |-> "idle", client |-> NoClient, base |-> "", quote |-> "",
   network |-> "testnet", contractAddress |-> "", reason |-> "",
   apiId |-> "", quoteCurrency |-> "", roundData |-> NoRound,
   hasDecimals |-> FALSE, decimals |-> 0,
   httpResp |-> NoHttp, scError |-> <<>>, httpError |-> <<>>,
   scCalls |-> 0, httpCalls |-> 0, out |-> NoOut]

Return(f, o) == [f EXCEPT !.pc = "returned", !.out = o]

\* networkContracts[pair], "" when the table has no such key
FeedAddress(network, pair) ==
  IF pair \in DOMAIN PRICE_FEED_CONTRACTS[network]
  THEN PRICE_FEED_CONTRACTS[network][pair]
  ELSE ""

\* contractAddress.includes('XXXXXXX'): the one address of the model that
\* holds the marker
PlaceholderAddress == "0xXXXXXXXXXXXXXXXXXXXXXXXXXXXXXXXXXXXXXXXX"

IsPlaceholder(addr) == addr = PlaceholderAddress

\* The branch the call takes before its first await: "contract" when the
\* contract is read, else the reason why the API is used instead.
\* (variant: the registry is consulted without looking at the client)
SelectSourceNoClientCheck(c, network, pair) ==
  IF FeedAddress(network, pair) = "" THEN "no_feed"
  ELSE IF IsPlaceholder(FeedAddress(network, pair)) THEN "placeholder"
  ELSE "contract"

SelectSource(c, network, pair) ==
  IF ~c.present THEN "no_client"
  ELSE IF FeedAddress(network, pair) = "" THEN "no_feed"
  ELSE IF IsPlaceholder(FeedAddress(network, pair)) THEN "placeholder"
  ELSE "contract"

\* the Error thrown when the CoinGecko read of a branch fails
\* (variant: the message of the last branch without the contract error)
BothFailedMessageHttpOnly(pair, scErr, httpErr) ==
  <<"Both smart contract call and CoinGecko fallback failed for ", pair,
    ". CoinGecko Error: ">> \o httpErr

BothFailedMessage(pair, scErr, httpErr) ==
  <<"Both smart contract call and CoinGecko fallback failed for ", pair,
    ". SC Error: ">> \o scErr \o <<", CoinGecko Error: ">> \o httpErr

FailureMessage(f, httpErr) ==
  LET pair == PairLabel(f.base, f.quote) IN
  CASE f.reason = "no_client" ->
         <<"CoinGecko API call failed: ">> \o httpErr
    [] f.reason = "no_feed" ->
         <<"Smart contract not available and CoinGecko fallback failed for ", pair, ": ">> \o httpErr
    [] f.reason = "placeholder" ->
         <<"Contract not configured and CoinGecko fallback failed for ", pair, ": ">> \o httpErr
    [] OTHER -> BothFailedMessage(pair, f.scError, httpErr)

\* (variant: one note and one source for every branch)
ApiResultUndistinguished(f, price) ==
  [NoOut EXCEPT !.kind = "ok", !.base = f.base, !.quote = f.quote,
                !.price = ToFixed6(price, 7),
                !.source = "coingecko-api-fallback",
                !.note = <<"CoinGecko fallback used">>,
                !.keys = {"base", "quote", "price", "source", "timestamp", "note"}]

\* the object returned when the CoinGecko read of a branch succeeds;
\* price is the API's number in units of 10^-7
ApiResult(f, price) ==
  LET pair == PairLabel(f.base, f.quote)
      common == [NoOut EXCEPT !.kind = "ok", !.base = f.base, !.quote = f.quote,
                              !.price = ToFixed6(price, 7),
                              !.keys = {"base", "quote", "price", "source", "timestamp", "note"}]
  IN
  CASE f.reason = "no_client" ->
         [common EXCEPT !.source = "coingecko-api",
                        !.note = <<"CoinGecko API used - no Hedera client provided">>]
    [] f.reason = "no_feed" ->
         [common EXCEPT !.source = "coingecko-api-fallback",
                        !.note = <<"Smart contract not available for ", pair, " on ",
                                   f.network, ", used CoinGecko fallback">>]
    [] f.reason = "placeholder" ->
         [common EXCEPT !.source = "coingecko-api-fallback",
                        !.note = <<"Contract address not configured for ", pair, " on ",
                                   f.network, ", used CoinGecko fallback">>]
    [] OTHER ->
         [common EXCEPT !.source = "coingecko-api-fallback",
                        !.note = <<"CoinGecko fallback used due to smart contract call failure">>,
                        !.originalError = f.scError,
                        !.keys = @ \cup {"originalError"}]

\* getCoinGeckoPrice up to its fetch: the id lookup throws without a
\* request, otherwise one GET is issued and the call waits for it.
CoinGeckoRequest(f) ==
  IF f.base \notin DOMAIN COINGECKO_IDS
  THEN LET e == <<"CoinGecko ID not found for ", f.base>>
       IN  Return([f EXCEPT !.httpError = e], Thrown(FailureMessage(f, e)))
  ELSE [f EXCEPT !.pc = "http", !.apiId = COINGECKO_IDS[f.base],
                 !.quoteCurrency = toLowerCase(f.quote),
                 !.httpCalls = @ + 1]

\* (variant: a failed request is issued a second time)
HttpReturnsRetrying(f, resp) ==
  IF resp.kind = "price" /\ resp.price # 0
  THEN Return([f EXCEPT !.httpResp = resp], ApiResult(f, resp.price))
  ELSE IF f.httpCalls < 2
  THEN [f EXCEPT !.httpCalls = @ + 1]
  ELSE LET e == HttpErrorMessage(resp, f.base, f.quote)
       IN  Return([f EXCEPT !.httpResp = resp, !.httpError = e],
                  Thrown(FailureMessage(f, e)))

\* getCoinGeckoPrice after its fetch, and the try/catch around it
HttpReturns(f, resp) ==
  IF resp.kind = "price" /\ resp.price # 0
  THEN Return([f EXCEPT !.httpResp = resp], ApiResult(f, resp.price))
  ELSE LET e == HttpErrorMessage(resp, f.base, f.quote)
       IN  Return([f EXCEPT !.httpResp = resp, !.httpError = e],
                  Thrown(FailureMessage(f, e)))

\* the catch block around the contract path: any error of the contract
\* path is kept as `error` and the CoinGecko read is attempted
\* (variant: a catch that rethrows)
ContractFailedRethrow(f, err) ==
  Return([f EXCEPT !.scError = err], Thrown(err))

ContractFailed(f, err) ==
  CoinGeckoRequest([f EXCEPT !.scError = err, !.reason = "contract_call_failed"])

\* the call from its entry to its first await
Begin(c, b, q) ==
  LET network == detectNetwork(c).network
      pair == PairLabel(b, q)
      src == SelectSource(c, network, pair)
      f == [NoFrame EXCEPT !.client = c, !.base = b, !.quote = q, !.network = network]
  IN  IF src = "contract"
      THEN [f EXCEPT !.pc = "lrd", !.reason = "contract",
                     !.contractAddress = FeedAddress(network, pair),
                     !.scCalls = @ + 1]
      ELSE CoinGeckoRequest([f EXCEPT !.reason = src])

\* latestRoundData has answered: decode, then issue the decimals query
LatestRoundDataReturns(f, resp) ==
  IF resp.kind = "ok"
  THEN [f EXCEPT !.pc = "dec", !.roundData = resp, !.scCalls = @ + 1]
  ELSE ContractFailed(f, <<resp.err>>)

\* price = Number(answer.toString()) / Math.pow(10, decimals), and the
\* returned object
ContractResult(f, decimals) ==
  [NoOut EXCEPT !.kind = "ok", !.base = f.base, !.quote = f.quote,
                !.price = ToFixed6(f.roundData.answer, decimals),
                !.source = "chainlink-hedera-sc",
                !.contractAddress = f.contractAddress,
                !.roundId = f.roundData.roundId,
                !.decimals = decimals,
                !.keys = {"base", "quote", "price", "source", "contractAddress",
                          "roundId", "updatedAt", "timestamp", "decimals"}]

\* decimals has answered: decode, compute, build the result (toISOString
\* of updatedAt throws inside the same try)
DecimalsReturns(f, resp) ==
  IF resp.kind # "ok" THEN ContractFailed(f, <<resp.err>>)
  ELSE LET g == [f EXCEPT !.hasDecimals = TRUE, !.decimals = resp.decimals] IN
       IF ~f.roundData.updatedAtValidDate
       THEN ContractFailed(g, <<"Invalid time value">>)
       ELSE Return(g, ContractResult(g, resp.decimals))

(* ------------------------------------------------------------------ *)
(* getMultiplePricesExecute                                            *)
(* ------------------------------------------------------------------ *)

\* a JavaScript value found in a pair's base or quote
JsString(s) == [t |-> "string", s |-> s]

JsUndefined == [t |-> "undefined", s |-> ""]

\* the number 7, a truthy value that is not a string
JsNumber == [t |-> "number", s |-> "7"]

\* the value inside a template literal
Render(v) == IF v.t = "undefined" THEN "undefined" ELSE v.s

\* (variant: the test without the trim)
NotNonEmptyStringUntrimmed(v) == v.t # "string" \/ v.s = ""

\* !v || typeof v !== 'string' || v.trim().length === 0
NotNonEmptyString(v) == v.t # "string" \/ v.s = "" \/ trim(v.s) = ""

NoBatchOut ==
  [kind |-> "none", results |-> <<>>, errors |-> <<>>, totalRequested |-> 0,
   successCount |-> 0, errorCount |-> 0, note |-> <<>>]

\* pc: "price" while the pair at position i is being resolved, "delay"
\* during the setTimeout that follows it, "returned" at the end.  delays
\* counts the setTimeout waits started.
NoBatch ==
  [pc |-> "idle", client |-> NoClient, pairs |-> <<>>, i |-> 0,
   results |-> <<>>, errors |-> <<>>, delays |-> 0]

\* the object the batch returns
\* (variant: totalRequested taken from results)
BatchReturnCountingResults(b) ==
  [kind |-> "ok", results |-> b.results, errors |-> b.errors,
   totalRequested |-> Len(b.results),
   successCount |-> Len(b.results),
   errorCount |-> Len(b.errors),
   note |-> IF Len(b.errors) > 0 THEN <<"pairs failed to fetch">>
            ELSE <<"All pairs fetched successfully">>]

BatchReturn(b) ==
  [kind |-> "ok", results |-> b.results, errors |-> b.errors,
   totalRequested |-> Len(b.pairs),
   successCount |-> Len(b.results),
   errorCount |-> Len(b.errors),
   note |-> IF Len(b.errors) > 0 THEN <<"pairs failed to fetch">>
            ELSE <<"All pairs fetched successfully">>]

\* Reject with the delay placed ahead of the `continue`
RejectDelaying(b, msg) ==
  LET pair == b.pairs[b.i] IN
  [b EXCEPT !.errors = Append(@, [pair |-> PairLabel(Render(pair.base), Render(pair.quote)),
                                  error |-> <<msg>>]),
            !.delays = @ + 1,
            !.i = @ + 1]

\* a pair rejected by the validation at the top of the loop body: one
\* entry in errors, then `continue`
Reject(b, msg) ==
  LET pair == b.pairs[b.i] IN
  [b EXCEPT !.errors = Append(@, [pair |-> PairLabel(Render(pair.base), Render(pair.quote)),
                                  error |-> <<msg>>]),
            !.i = @ + 1]

\* the try/catch around getCryptoPriceExecute once the call f has ended:
\* push to results or to errors, then start the delay
\* (variant: a failure ends the loop)
SettleAborting(b, f) ==
  LET pair == b.pairs[b.i] IN
  IF f.out.kind = "ok"
  THEN [b EXCEPT !.results = Append(@, f.out), !.pc = "delay", !.delays = @ + 1]
  ELSE [b EXCEPT !.errors = Append(@, [pair |-> PairLabel(Render(pair.base), Render(pair.quote)),
                                       error |-> f.out.message]),
                 !.i = Len(b.pairs),
                 !.pc = "delay", !.delays = @ + 1]

Settle(b, f) ==
  LET pair == b.pairs[b.i] IN
  IF f.out.kind = "ok"
  THEN [b EXCEPT !.results = Append(@, f.out), !.pc = "delay", !.delays = @ + 1]
  ELSE [b EXCEPT !.errors = Append(@, [pair |-> PairLabel(Render(pair.base), Render(pair.quote)),
                                       error |-> f.out.message]),
                 !.pc = "delay", !.delays = @ + 1]

\* (variant: the call is not awaited; the loop goes on to its delay with
\* the call still pending)
AfterCallNotAwaiting(b, f) ==
  IF f.pc = "returned"
  THEN [batch |-> Settle(b, f), call |-> f]
  ELSE [batch |-> [b EXCEPT !.pc = "delay", !.delays = @ + 1], call |-> f]

\* the batch b with the price call f it is waiting for: when f has ended
\* the batch settles the pair, otherwise it keeps waiting
AfterCall(b, f) ==
  IF f.pc = "returned"
  THEN [batch |-> Settle(b, f), call |-> f]
  ELSE [batch |-> b, call |-> f]

\* the loop from the top of its body at position b.i, up to the next
\* await or the return
RECURSIVE LoopFrom(_, _)
LoopFrom(b, f) ==
  IF b.i > Len(b.pairs)
  THEN [batch |-> [b EXCEPT !.pc = "returned"], call |-> f]
  ELSE LET pair == b.pairs[b.i] IN
       IF NotNonEmptyString(pair.base)
       THEN LoopFrom(Reject(b, "Invalid base symbol: must be a non-empty string"), f)
       ELSE IF NotNonEmptyString(pair.quote)
       THEN LoopFrom(Reject(b, "Invalid quote symbol: must be a non-empty string"), f)
       ELSE AfterCall([b EXCEPT !.pc = "price"],
                      Begin(b.client, pair.base.s, pair.quote.s))

(* ------------------------------------------------------------------ *)
(* Addresses, ids and RPC errors of the EVM tools                      *)
(* ------------------------------------------------------------------ *)

\* What the validators read of an address or id string: whether it starts
\* with "0x", its length, whether every character after the first two is a
\* hex digit, and what ethers.isAddress says of it (the checksum of a
\* mixed-case address).
HexString(text, length, isAddress) ==
  [text |-> text, startsWith0x |-> TRUE, length |-> length, hex |-> TRUE,
   isAddress |-> isAddress]

OtherString(text, startsWith0x, length) ==
  [text |-> text, startsWith0x |-> startsWith0x, length |-> length, hex |-> FALSE,
   isAddress |-> FALSE]

AddressStrings ==
  { HexString("0x<40 lower-case hex>", 42, TRUE),
    HexString("0x<40 mixed-case hex, bad checksum>", 42, FALSE),
    HexString("0x<64 hex>", 66, FALSE),
    HexString("0x<4 hex>", 6, FALSE),
    OtherString("0x<40 letters z>", TRUE, 42),
    OtherString("<42 hex without 0x>", FALSE, 42),
    OtherString("<66 hex without 0x>", FALSE, 66),
    OtherString("", FALSE, 0) }

\* (variant: prefix and length only)
validateContractAddressPrefixAndLength(address) ==
  address.startsWith0x /\ address.length = 42

validateContractAddress(address) ==
  IF address.length = 0 THEN FALSE
  ELSE IF ~address.startsWith0x \/ address.length # 42 THEN FALSE
  ELSE IF ~address.hex THEN FALSE
  ELSE address.isAddress

\* messages of the errors a JSON-RPC call of ethers rejects with
RpcErrors ==
  { <<"missing revert data (code=", "CALL_EXCEPTION", ")">>,
    <<"call revert exception">>,
    <<"request ", "timeout", " for https://rpc.example/key-123">>,
    <<"could not detect ", "network">>,
    <<"could not coalesce error (message=", "Invalid", " params, url=https://rpc.example/key-123)">>,
    <<"connect ECONNREFUSED 10.0.0.7:443">> }

\* a promise of an RPC call
Pending == [kind |-> "pending", err |-> <<>>]

Rejected(err) == [kind |-> "err", err |-> err]

(* ------------------------------------------------------------------ *)
(* createTransparencyInfo                                              *)
(* ------------------------------------------------------------------ *)

\* transactionResult: null, or an object of which the builder reads
\* transactionId, transactionFee (toTinybars may throw) and gasUsed
NoTransaction ==
  [present |-> FALSE, hasTransactionId |-> FALSE, hasFee |-> FALSE,
   feeThrows |-> FALSE, hasGasUsed |-> FALSE]

NoEnvelope ==
  [keys |-> {}, type |-> "", network |-> "", contractAddress |-> "",
   verificationUrl |-> <<>>, details |-> {}]

\* tx is the transactionResult.  keys are the properties set on the
\* operation object; details holds the keys of the details given
\* (hasDetails tells whether any were given)
\* (variant: the fee is set whenever the result has a transactionFee)
createTransparencyInfoFeeUncaught(client, tx, contractAddress, operationType, hasDetails, details) ==
  LET network == detectNetwork(client).network
  IN  [keys |-> {"type", "network", "timestamp"}
                \cup (IF contractAddress # "" THEN {"contractAddress", "verificationUrl"} ELSE {})
                \cup (IF tx.present /\ tx.hasTransactionId
                      THEN {"transactionId", "verificationUrl"} ELSE {})
                \cup (IF tx.present /\ tx.hasFee THEN {"hbarFee"} ELSE {})
                \cup (IF tx.present /\ tx.hasGasUsed THEN {"gasUsed"} ELSE {})
                \cup (IF hasDetails THEN {"details"} ELSE {}),
       type |-> IF operationType = "" THEN "blockchain_query" ELSE operationType,
       network |-> network,
       contractAddress |-> contractAddress,
       verificationUrl |->
         IF tx.present /\ tx.hasTransactionId
         THEN <<"https://hashscan.io/", network, "/transaction/", "<id>">>
         ELSE IF contractAddress # ""
         THEN <<"https://hashscan.io/", network, "/contract/", contractAddress>>
         ELSE <<>>,
       details |-> IF hasDetails THEN details ELSE {}]

\* operationType "" stands for an omitted argument (the default applies)
createTransparencyInfo(client, tx, contractAddress, operationType, hasDetails, details) ==
  LET network == detectNetwork(client).network
  IN  [keys |-> {"type", "network", "timestamp"}
                \cup (IF contractAddress # "" THEN {"contractAddress", "verificationUrl"} ELSE {})
                \cup (IF tx.present /\ tx.hasTransactionId
                      THEN {"transactionId", "verificationUrl"} ELSE {})
                \cup (IF tx.present /\ tx.hasFee /\ ~tx.feeThrows THEN {"hbarFee"} ELSE {})
                \cup (IF tx.present /\ tx.hasGasUsed THEN {"gasUsed"} ELSE {})
                \cup (IF hasDetails THEN {"details"} ELSE {}),
       type |-> IF operationType = "" THEN "blockchain_query" ELSE operationType,
       network |-> network,
       contractAddress |-> contractAddress,
       verificationUrl |->
         IF tx.present /\ tx.hasTransactionId
         THEN <<"https://hashscan.io/", network, "/transaction/", "<id>">>
         ELSE IF contractAddress # ""
         THEN <<"https://hashscan.io/", network, "/contract/", contractAddress>>
         ELSE <<>>,
       details |-> IF hasDetails THEN details ELSE {}]

\* a call of the builder: the arguments, and the object returned
NoEnvelopeCall ==
  [called |-> FALSE, client |-> NoClient, transactionResult |-> NoTransaction,
   contractAddress |-> "", operationType |-> "", hasDetails |-> FALSE,
   operation |-> NoEnvelope]

\* transaction results: null, or an object with any of the three fields
Transactions ==
  {NoTransaction} \cup
  { t \in [present : {TRUE}, hasTransactionId : BOOLEAN, hasFee : BOOLEAN,
           feeThrows : BOOLEAN, hasGasUsed : BOOLEAN] : t.feeThrows => t.hasFee }

(* ------------------------------------------------------------------ *)
(* check-proof-of-reserve: execute                                     *)
(* ------------------------------------------------------------------ *)

\* The int256 answer of the feed, n * 10^exp.
ReserveAnswer(n, exp) == [n |-> n, exp |-> exp]

ReserveAnswers ==
  { ReserveAnswer(-5, 0), ReserveAnswer(0, 0), ReserveAnswer(1, 0),
    ReserveAnswer(1234, 0), ReserveAnswer(100456789, 0), ReserveAnswer(1, 40) }

ReserveDecimals == {6, 8, 18, 19}

\* the three reads of the feed contract as they settle.  datesValid tells
\* whether startedAt and updatedAt are times Date can represent.
ReserveRoundResponses ==
  { Rejected(e) : e \in RpcErrors } \cup
  [kind : {"ok"}, err : {<<>>}, answer : ReserveAnswers, datesValid : BOOLEAN]

ReserveDecimalsResponses ==
  { Rejected(e) : e \in RpcErrors } \cup
  [kind : {"ok"}, err : {<<>>}, decimals : ReserveDecimals]

ReserveDescriptionResponses ==
  { Rejected(<<"could not detect ", "network">>),
    [kind |-> "ok", err |-> <<>>] }

NoReserveOut ==
  [kind |-> "none", message |-> <<>>, keys |-> {}, status |-> "",
   value |-> 0, decimals |-> 0, raw |-> ReserveAnswer(0, 0), network |-> "",
   blockchainOperation |-> NoEnvelope]

\* pc: "await" while the Promise.all of line 44 is pending, "returned" once
\* the call has returned or thrown (out).  roundData, decimals and
\* description are the three promises; timerFired tells whether the
\* setTimeout of the race has fired; rpcCalls counts the reads issued.
NoReserve ==
  [pc |-> "idle", client |-> NoClient, feedAddress |-> OtherString("", FALSE, 0),
   networkConfig |-> NETWORK_CONFIGS.testnet,
   roundData |-> Pending, decimals |-> Pending, description |-> Pending,
   timerFired |-> FALSE, rpcCalls |-> 0, out |-> NoReserveOut]

ReserveThrows(f, msg) ==
  [f EXCEPT !.pc = "returned", !.out = [NoReserveOut EXCEPT !.kind = "err", !.message = msg]]

\* the catch block: the message thrown for the error caught
ReserveCatch(f, message) ==
  IF Includes(message, <<"timeout">>)
  THEN ReserveThrows(f, <<"Proof of Reserve contract call timed out">>)
  ELSE IF Includes(message, <<"CALL_EXCEPTION">>)
  THEN ReserveThrows(f, <<"Contract call failed - invalid contract or network issue">>)
  ELSE IF Includes(message, <<"Invalid">>)
  THEN ReserveThrows(f, message)
  ELSE ReserveThrows(f, <<"Proof of Reserve check failed">>)

\* reserves > 1e15, reserves being n * 10^exp / 10^decimals
ExceedsSanityBound(answer, decimals) ==
  LET k == answer.exp - decimals - 15 IN
  IF answer.n <= 0 THEN FALSE
  ELSE IF k >= 0 THEN answer.n > 1 \/ k > 0
  ELSE IF -k > 9 THEN FALSE
  ELSE answer.n > Pow10(-k)

\* reserves > 0 ? "RESERVES_CONFIRMED" : "RESERVES_DEPLETED"
ReserveStatus(answer, decimals) ==
  IF answer.n > 0 THEN "RESERVES_CONFIRMED" ELSE "RESERVES_DEPLETED"

\* the three reads have answered: validation of the values, the envelope
\* and the returned object (lines 55-103)
ReserveResult(f) ==
  LET answer == f.roundData.answer
      decimalsNum == f.decimals.decimals
  IN
  IF decimalsNum < 0 \/ decimalsNum > 18
  THEN ReserveCatch(f, <<"Invalid", " decimals value from contract">>)
  ELSE IF answer.n < 0
  THEN ReserveCatch(f, <<"Invalid", " reserve value from contract">>)
  ELSE IF ExceedsSanityBound(answer, decimalsNum)
  THEN ReserveCatch(f, <<"Reserve value outside reasonable bounds">>)
  ELSE IF ~f.roundData.datesValid
  THEN ReserveCatch(f, <<"Invalid", " time value">>)
  ELSE [f EXCEPT !.pc = "returned",
                 !.out = [kind |-> "ok", message |-> <<>>,
                          keys |-> {"feedAddress", "description", "reserves", "roundData",
                                    "network", "status", "source", "timestamp",
                                    "blockchainOperation"},
                          status |-> ReserveStatus(answer, decimalsNum),
                          value |-> ToFixed6(answer.n, decimalsNum),
                          decimals |-> decimalsNum,
                          raw |-> answer,
                          network |-> f.networkConfig.network,
                          blockchainOperation |->
                            createTransparencyInfo(f.client, NoTransaction, f.feedAddress.text,
                              "proof_of_reserve_check", TRUE,
                              {"function", "rpcProvider", "asset", "roundId", "decimals"})]]

\* Promise.all over the race and the two other reads: rejected with the
\* first rejection, fulfilled when the three are
ReserveSettled(f) ==
  IF f.roundData.kind = "err" THEN ReserveCatch(f, f.roundData.err)
  ELSE IF f.decimals.kind = "err" THEN ReserveCatch(f, f.decimals.err)
  ELSE IF f.description.kind = "err" THEN ReserveCatch(f, f.description.err)
  ELSE IF f.roundData.kind = "ok" /\ f.decimals.kind = "ok" /\ f.description.kind = "ok"
  THEN ReserveResult(f)
  ELSE f

\* execute from its entry to the await of line 44
ReserveBegin(client, feedAddress) ==
  LET f == [NoReserve EXCEPT !.client = client, !.feedAddress = feedAddress] IN
  IF ~validateContractAddress(feedAddress)
  THEN ReserveThrows(f, <<"Invalid", " contract address format">>)
  ELSE [f EXCEPT !.pc = "await", !.networkConfig = detectNetwork(client),
                 !.rpcCalls = @ + 3]

(* ------------------------------------------------------------------ *)
(* get-ccip-message-status: getCcipMessageStatusExecute and execute    *)
(* ------------------------------------------------------------------ *)

\* The repository holds two revisions of the tool: the earlier one
\* (getCcipMessageStatusExecute) wraps its body in a try/catch and reads
\* the blocks of the events found; the later one (execute) queries both
\* event types at once and attaches a transparency envelope.
Revisions == {"getCcipMessageStatusExecute", "execute"}

\* the optional fromBlock parameter
NoFromBlock == [present |-> FALSE, value |-> 0]

FromBlocks == {NoFromBlock, [present |-> TRUE, value |-> 0], [present |-> TRUE, value |-> 4500]}

LatestBlocks == {500, 5000}

BlockNumberResponses ==
  { Rejected(e) : e \in RpcErrors } \cup [kind : {"ok"}, err : {<<>>}, block : LatestBlocks]

\* queryFilter: the number of events found
EventsResponses ==
  { Rejected(e) : e \in RpcErrors } \cup [kind : {"ok"}, err : {<<>>}, events : {0, 1, 2}]

\* contract.getMessageStatus: the uint8 the router returns
MessageStatusResponses ==
  { Rejected(<<"call revert exception">>) } \cup
  [kind : {"ok"}, err : {<<>>}, code : {0, 1, 2, 3, 4, 7}]

\* provider.getBlock(...).then(b => new Date(b!.timestamp * 1000).toISOString())
GetBlockResponses ==
  { Rejected(<<"could not detect ", "network">>),
    Rejected(<<"Cannot read properties of null (reading 'timestamp')">>),
    [kind |-> "ok", err |-> <<>>] }

\* statusMap[statusCode] || "UNKNOWN"
CCIP_STATUS_MAP(code) ==
  CASE code = 0 -> "UNKNOWN"
    [] code = 1 -> "SENT"
    [] code = 2 -> "IN_PROGRESS"
    [] code = 3 -> "SUCCESS"
    [] code = 4 -> "FAILED"
    [] OTHER -> "UNKNOWN"

NoCcipOut ==
  [kind |-> "none", message |-> <<>>, keys |-> {}, status |-> "", statusCode |-> 0,
   network |-> "",
   searchRange |-> [fromBlock |-> 0, toBlock |-> 0, blocksSearched |-> 0],
   sendDetails |-> FALSE, executeDetails |-> FALSE,
   blockchainOperation |-> NoEnvelope]

\* pc: the await the call is suspended at ("blockNumber", "sendQuery",
\* "executeQuery", "queries" for the Promise.all of the later revision,
\* "status", "sendBlock", "executeBlock"), or "returned".  sendEvents and
\* executeEvents are the promises of the two queries, with the number of
\* events found once fulfilled.  rpcCalls counts the RPC calls issued.
NoCcip ==
  [pc |-> "idle", revision |-> "execute", client |-> NoClient,
   routerAddress |-> OtherString("", FALSE, 0), messageId |-> OtherString("", FALSE, 0),
   fromBlock |-> NoFromBlock, networkConfig |-> NETWORK_CONFIGS.testnet,
   latestBlock |-> 0, searchFromBlock |-> 0,
   sendEvents |-> Pending, executeEvents |-> Pending,
   status |-> "UNKNOWN", statusCode |-> -1,
   statusRead |-> Pending,
   rpcCalls |-> 0, out |-> NoCcipOut]

CcipThrows(f, msg) ==
  [f EXCEPT !.pc = "returned", !.out = [NoCcipOut EXCEPT !.kind = "err", !.message = msg]]

\* an error raised in the body: the catch block of the earlier revision
\* rewrites it, the later revision lets it through
CcipFails(f, message) ==
  IF f.revision = "execute" THEN CcipThrows(f, message)
  ELSE IF Includes(message, <<"call revert exception">>)
  THEN CcipThrows(f, <<"CCIP contract call failed: Invalid contract address or network mismatch">>)
  ELSE IF Includes(message, <<"network">>)
  THEN CcipThrows(f, <<"Network connection failed: ">> \o message)
  ELSE IF Includes(message, <<"Invalid">>)
  THEN CcipThrows(f, message)
  ELSE CcipThrows(f, <<"CCIP message status check failed: ">> \o message)

\* the messages of the two validations
RouterAddressMessage(revision) ==
  IF revision = "execute"
  THEN <<"Invalid", " router address format">>
  ELSE <<"Invalid", " router address format. Must be a valid Ethereum address (0x...)">>

MessageIdMessage(revision) ==
  IF revision = "execute"
  THEN <<"Invalid", " message ID format. Must be 32-byte hex string">>
  ELSE <<"Invalid", " message ID format. Must be a valid 32-byte hex string (0x...)">>

\* the two validations at the entry: the message to throw, <<>> when the
\* arguments pass
CcipValidation(f) ==
  IF ~f.routerAddress.startsWith0x \/ f.routerAddress.length # 42
  THEN RouterAddressMessage(f.revision)
  ELSE IF ~f.messageId.startsWith0x \/ f.messageId.length # 66
  THEN MessageIdMessage(f.revision)
  ELSE <<>>

\* the call from its entry to the await of provider.getBlockNumber()
CcipBegin(revision, client, routerAddress, messageId, fromBlock) ==
  LET f == [NoCcip EXCEPT !.revision = revision, !.client = client,
                          !.routerAddress = routerAddress, !.messageId = messageId,
                          !.fromBlock = fromBlock]
  IN  IF CcipValidation(f) # <<>>
      THEN CcipFails(f, CcipValidation(f))
      ELSE [f EXCEPT !.pc = "blockNumber", !.networkConfig = detectNetwork(client),
                     !.rpcCalls = @ + 1]

\* fromBlock || Math.max(latestBlock - 1000, 0)
SearchFromBlock(fromBlock, latestBlock) ==
  IF fromBlock.present /\ fromBlock.value # 0 THEN fromBlock.value
  ELSE IF latestBlock - 1000 > 0 THEN latestBlock - 1000 ELSE 0

\* getBlockNumber has answered: the range, then the event queries
BlockNumberReturns(f, resp) ==
  IF resp.kind # "ok" THEN CcipFails(f, resp.err)
  ELSE LET g == [f EXCEPT !.latestBlock = resp.block,
                          !.searchFromBlock = SearchFromBlock(f.fromBlock, resp.block)]
       IN  IF f.revision = "execute"
           THEN [g EXCEPT !.pc = "queries", !.rpcCalls = @ + 2]
           ELSE [g EXCEPT !.pc = "sendQuery", !.rpcCalls = @ + 1]

\* the object returned
CcipResult(f) ==
  [f EXCEPT
     !.pc = "returned",
     !.out = [kind |-> "ok", message |-> <<>>,
              keys |-> {"messageId", "routerAddress", "status", "statusCode", "network",
                        "searchRange", "sendDetails", "executeDetails", "source",
                        "timestamp"}
                       \cup (IF f.revision = "execute" THEN {"blockchainOperation"} ELSE {}),
              status |-> f.status, statusCode |-> f.statusCode,
              network |-> f.networkConfig.network,
              searchRange |-> [fromBlock |-> f.searchFromBlock, toBlock |-> f.latestBlock,
                               blocksSearched |-> f.latestBlock - f.searchFromBlock + 1],
              sendDetails |-> f.sendEvents.events > 0,
              executeDetails |-> f.executeEvents.events > 0,
              blockchainOperation |->
                IF f.revision = "execute"
                THEN createTransparencyInfo(f.client, NoTransaction, f.routerAddress.text,
                       "ccip_message_tracking", TRUE,
                       {"function", "rpcProvider", "messageId", "blocksSearched", "eventsFound"})
                ELSE NoEnvelope]]

\* earlier revision, the result object under construction: the block of
\* the send event is read, then the block of the execute event
CcipBuildResult(f) ==
  IF f.sendEvents.events > 0
  THEN [f EXCEPT !.pc = "sendBlock", !.rpcCalls = @ + 1]
  ELSE IF f.executeEvents.events > 0
  THEN [f EXCEPT !.pc = "executeBlock", !.rpcCalls = @ + 1]
  ELSE CcipResult(f)

\* (variant: the execute event does not override the status read)
CcipProcessExecuteEventKeeping(f) ==
  IF f.executeEvents.events > 0 /\ f.status = "UNKNOWN"
  THEN CcipBuildResult([f EXCEPT !.status = "EXECUTED", !.statusCode = 3])
  ELSE CcipBuildResult(f)

\* earlier revision, "Process execute event" (lines 86-91)
CcipProcessExecuteEvent(f) ==
  IF f.executeEvents.events > 0
  THEN CcipBuildResult([f EXCEPT !.status = "EXECUTED", !.statusCode = 3])
  ELSE CcipBuildResult(f)

\* both queries have answered: the status from the events, and the direct
\* read of the router when a send event calls for it
CcipProcessEvents(f) ==
  IF f.revision = "execute"
  THEN IF f.executeEvents.events > 0
       THEN CcipResult([f EXCEPT !.status = "EXECUTED", !.statusCode = 3])
       ELSE IF f.sendEvents.events > 0
       THEN [f EXCEPT !.status = "SENT", !.statusCode = 1,
                      !.pc = "status", !.rpcCalls = @ + 1]
       ELSE CcipResult(f)
  ELSE IF f.sendEvents.events > 0
       THEN [f EXCEPT !.status = "SENT", !.pc = "status", !.rpcCalls = @ + 1]
       ELSE CcipProcessExecuteEvent(f)

\* a query has settled into the frame f
CcipQueriesSettled(f) ==
  IF f.revision = "execute"
  THEN IF f.sendEvents.kind = "err" THEN CcipFails(f, f.sendEvents.err)
       ELSE IF f.executeEvents.kind = "err" THEN CcipFails(f, f.executeEvents.err)
       ELSE IF f.sendEvents.kind = "ok" /\ f.executeEvents.kind = "ok"
       THEN CcipProcessEvents(f)
       ELSE f
  ELSE IF f.pc = "sendQuery"
       THEN IF f.sendEvents.kind = "err" THEN CcipFails(f, f.sendEvents.err)
            ELSE [f EXCEPT !.pc = "executeQuery", !.rpcCalls = @ + 1]
       ELSE IF f.executeEvents.kind = "err" THEN CcipFails(f, f.executeEvents.err)
            ELSE CcipProcessEvents(f)

SendEventsReturns(f, resp) == CcipQueriesSettled([f EXCEPT !.sendEvents = resp])

ExecuteEventsReturns(f, resp) == CcipQueriesSettled([f EXCEPT !.executeEvents = resp])

\* (variant: the status stays at the one of the events)
MessageStatusReturnsIgnored(f, resp) ==
  LET g == [f EXCEPT !.statusRead = resp] IN
  IF f.revision = "execute" THEN CcipResult(g) ELSE CcipProcessExecuteEvent(g)

\* contract.getMessageStatus has answered or failed (inner try/catch)
MessageStatusReturns(f, resp) ==
  LET g == IF resp.kind = "ok"
           THEN [f EXCEPT !.statusRead = resp,
                          !.status = CCIP_STATUS_MAP(resp.code),
                          !.statusCode = resp.code]
           ELSE [f EXCEPT !.statusRead = resp]
  IN  IF f.revision = "execute" THEN CcipResult(g) ELSE CcipProcessExecuteEvent(g)

\* earlier revision: a getBlock of the result object has answered
GetBlockReturns(f, resp) ==
  IF resp.kind # "ok" THEN CcipFails(f, resp.err)
  ELSE IF f.pc = "sendBlock" /\ f.executeEvents.events > 0
  THEN [f EXCEPT !.pc = "executeBlock", !.rpcCalls = @ + 1]
  ELSE CcipResult(f)

(* ------------------------------------------------------------------ *)
(* The state machine                                                   *)
(* ------------------------------------------------------------------ *)

VARIABLES
  tool,      \* the tool being executed: "none", "price", "batch",
             \* "reserve" or "ccip"
  call,      \* the frame of the current getCryptoPriceExecute call
  batch,     \* the frame of the current getMultiplePricesExecute call
  ret,       \* what the price tool returned or threw to its caller
  bret,      \* what the batch tool returned to its caller
  observed,  \* the price calls a batch has made so far, as they ended:
             \* the position of the pair, the outcome, the network calls
  reserve,   \* the frame of the current proof-of-reserve call
  ccip,      \* the frame of the current CCIP message status call
  envelope   \* the current call of createTransparencyInfo: its arguments
             \* and the operation object it returned

vars == <<tool, call, batch, ret, bret, observed, reserve, ccip, envelope>>

Init ==
  /\ tool = "none"
  /\ call = NoFrame
  /\ batch = NoBatch
  /\ ret = NoOut
  /\ bret = NoBatchOut
  /\ observed = <<>>
  /\ reserve = NoReserve
  /\ ccip = NoCcip
  /\ envelope = NoEnvelopeCall

\* inputs of the price tool
Bases == {"BTC", "btc", "HBAR", "LINK", "XYZ"}

Quotes == {"USD", "usd", "EUR", "XYZ"}

Observation(i, f) ==
  [index |-> i, out |-> f.out, scCalls |-> f.scCalls, httpCalls |-> f.httpCalls]

\* the price call moves to frame f; its caller (the host, or the batch
\* loop) continues when it has ended
Advance(f) ==
  /\ call' = f
  /\ tool' = tool
  /\ UNCHANGED <<reserve, ccip, envelope>>
  /\ IF tool = "price"
     THEN /\ ret' = IF f.pc = "returned" THEN f.out ELSE ret
          /\ UNCHANGED <<batch, bret, observed>>
     ELSE /\ batch' = AfterCall(batch, f).batch
          /\ observed' = IF f.pc = "returned"
                         THEN Append(observed, Observation(batch.i, f))
                         ELSE observed
          /\ UNCHANGED <<ret, bret>>

\* the batch loop has run to its next await or to its return; a price
\* call that ended without waiting is observed here
Continue(r) ==
  /\ batch' = r.batch
  /\ call' = r.call
  /\ bret' = IF r.batch.pc = "returned" THEN BatchReturn(r.batch) ELSE bret
  /\ observed' = IF r.call.pc = "returned"
                 THEN Append(observed, Observation(r.batch.i, r.call))
                 ELSE observed
  /\ UNCHANGED <<ret, reserve, ccip, envelope>>

CallGetCryptoPrice(c, b, q) ==
  /\ tool = "none"
  /\ tool' = "price"
  /\ call' = Begin(c, b, q)
  /\ ret' = IF call'.pc = "returned" THEN call'.out ELSE NoOut
  /\ UNCHANGED <<batch, bret, observed, reserve, ccip, envelope>>

OnLatestRoundData(resp) ==
  /\ call.pc = "lrd"
  /\ Advance(LatestRoundDataReturns(call, resp))

OnDecimals(resp) ==
  /\ call.pc = "dec"
  /\ Advance(DecimalsReturns(call, resp))

OnFetch(resp) ==
  /\ call.pc = "http"
  /\ Advance(HttpReturns(call, resp))

CallGetMultiplePrices(c, ps) ==
  /\ tool = "none"
  /\ tool' = "batch"
  /\ Continue(LoopFrom([NoBatch EXCEPT !.client = c, !.pairs = ps, !.i = 1], NoFrame))

OnDelayElapsed ==
  /\ tool = "batch"
  /\ batch.pc = "delay"
  /\ tool' = tool
  /\ Continue(LoopFrom([batch EXCEPT !.i = @ + 1], NoFrame))

\* (variant: the frame of the price call outlives the invocation)
ToolReturnsKeepingCall ==
  /\ \/ tool = "price" /\ ret.kind # "none"
     \/ tool = "batch" /\ bret.kind # "none"
     \/ tool = "reserve" /\ reserve.out.kind # "none"
     \/ tool = "ccip" /\ ccip.out.kind # "none"
     \/ tool = "envelope" /\ envelope.called
  /\ tool' = "none"
  /\ call' = call
  /\ batch' = NoBatch
  /\ ret' = NoOut
  /\ bret' = NoBatchOut
  /\ observed' = <<>>
  /\ reserve' = NoReserve
  /\ ccip' = NoCcip
  /\ envelope' = NoEnvelopeCall

\* the host has the tool's result; nothing of the invocation is kept
ToolReturns ==
  /\ \/ tool = "price" /\ ret.kind # "none"
     \/ tool = "batch" /\ bret.kind # "none"
     \/ tool = "reserve" /\ reserve.out.kind # "none"
     \/ tool = "ccip" /\ ccip.out.kind # "none"
     \/ tool = "envelope" /\ envelope.called
  /\ tool' = "none"
  /\ call' = NoFrame
  /\ batch' = NoBatch
  /\ ret' = NoOut
  /\ bret' = NoBatchOut
  /\ observed' = <<>>
  /\ reserve' = NoReserve
  /\ ccip' = NoCcip
  /\ envelope' = NoEnvelopeCall

\* createTransparencyInfo is called and returns
CallCreateTransparencyInfo(c, tx, contractAddress, operationType, hasDetails) ==
  /\ tool = "none"
  /\ tool' = "envelope"
  /\ envelope' =
       [called |-> TRUE, client |-> c, transactionResult |-> tx,
        contractAddress |-> contractAddress, operationType |-> operationType,
        hasDetails |-> hasDetails,
        operation |-> createTransparencyInfo(c, tx, contractAddress, operationType,
                                             hasDetails, {"function", "rpcProvider"})]
  /\ UNCHANGED <<call, batch, ret, bret, observed, reserve, ccip>>

\* the proof-of-reserve tool is invoked
CallCheckProofOfReserve(c, feedAddress) ==
  /\ tool = "none"
  /\ tool' = "reserve"
  /\ reserve' = ReserveBegin(c, feedAddress)
  /\ UNCHANGED <<call, batch, ret, bret, observed, ccip, envelope>>

ReserveAdvance(f) ==
  /\ reserve' = f
  /\ UNCHANGED <<tool, call, batch, ret, bret, observed, ccip, envelope>>

\* contract.latestRoundData() settles
OnReserveLatestRoundData(resp) ==
  /\ tool = "reserve" /\ reserve.pc = "await"
  /\ reserve.roundData.kind = "pending"
  /\ ReserveAdvance(ReserveSettled([reserve EXCEPT !.roundData = resp]))

\* the timer of the race fires while latestRoundData is pending
OnReserveTimeout ==
  /\ tool = "reserve" /\ reserve.pc = "await"
  /\ reserve.roundData.kind = "pending"
  /\ ReserveAdvance(ReserveSettled([reserve EXCEPT
                                     !.timerFired = TRUE,
                                     !.roundData = Rejected(<<"Contract call ", "timeout">>)]))

\* contract.decimals() settles
OnReserveDecimals(resp) ==
  /\ tool = "reserve" /\ reserve.pc = "await"
  /\ reserve.decimals.kind = "pending"
  /\ ReserveAdvance(ReserveSettled([reserve EXCEPT !.decimals = resp]))

\* contract.description() settles
OnReserveDescription(resp) ==
  /\ tool = "reserve" /\ reserve.pc = "await"
  /\ reserve.description.kind = "pending"
  /\ ReserveAdvance(ReserveSettled([reserve EXCEPT !.description = resp]))

\* the CCIP message status tool is invoked
CallGetCcipMessageStatus(revision, c, routerAddress, messageId, fromBlock) ==
  /\ tool = "none"
  /\ tool' = "ccip"
  /\ ccip' = CcipBegin(revision, c, routerAddress, messageId, fromBlock)
  /\ UNCHANGED <<call, batch, ret, bret, observed, reserve, envelope>>

CcipAdvance(f) ==
  /\ ccip' = f
  /\ UNCHANGED <<tool, call, batch, ret, bret, observed, reserve, envelope>>

OnBlockNumber(resp) ==
  /\ tool = "ccip" /\ ccip.pc = "blockNumber"
  /\ CcipAdvance(BlockNumberReturns(ccip, resp))

OnSendEvents(resp) ==
  /\ tool = "ccip" /\ ccip.pc \in {"sendQuery", "queries"}
  /\ ccip.sendEvents.kind = "pending"
  /\ CcipAdvance(SendEventsReturns(ccip, resp))

OnExecuteEvents(resp) ==
  /\ tool = "ccip" /\ ccip.pc \in {"executeQuery", "queries"}
  /\ ccip.executeEvents.kind = "pending"
  /\ CcipAdvance(ExecuteEventsReturns(ccip, resp))

OnMessageStatus(resp) ==
  /\ tool = "ccip" /\ ccip.pc = "status"
  /\ CcipAdvance(MessageStatusReturns(ccip, resp))

OnGetBlock(resp) ==
  /\ tool = "ccip" /\ ccip.pc \in {"sendBlock", "executeBlock"}
  /\ CcipAdvance(GetBlockReturns(ccip, resp))

\* The price tool, every response of the collaborators
Next ==
  \/ \E c \in Clients, b \in Bases, q \in Quotes : CallGetCryptoPrice(c, b, q)
  \/ \E resp \in LrdResponses : tool = "price" /\ OnLatestRoundData(resp)
  \/ \E resp \in DecResponses : tool = "price" /\ OnDecimals(resp)
  \/ \E resp \in HttpResponses : tool = "price" /\ OnFetch(resp)
  \/ tool = "price" /\ ToolReturns

Spec == Init /\ [][Next]_vars

\* The batch tool: lists of up to MaxPairs pairs, a client or none, and a
\* failing and a succeeding response of each collaborator
BatchClients ==
  {NoClient,
   [present |-> TRUE, hasOperator |-> TRUE, accountNum |-> 1000,
    strMainnet |-> FALSE, toStringThrows |-> FALSE]}

BatchPairs ==
  { [base |-> JsString("BTC"), quote |-> JsString("USD")],
    [base |-> JsString("XYZ"), quote |-> JsString("USD")],
    [base |-> JsString(""), quote |-> JsString("USD")],
    [base |-> JsString("BTC"), quote |-> JsString(" ")],
    [base |-> JsUndefined, quote |-> JsString("USD")],
    [base |-> JsString("BTC"), quote |-> JsNumber] }

PairLists == UNION { [1..n -> BatchPairs] : n \in 0..MaxPairs }

BatchLrdResponses ==
  { r \in LrdResponses :
      \/ r.kind = "throw" /\ r.err = "timeout"
      \/ r.kind = "ok" /\ r.answer = 16 /\ r.updatedAtValidDate }

BatchDecResponses ==
  { r \in DecResponses :
      \/ r.kind = "throw" /\ r.err = "timeout"
      \/ r.kind = "ok" /\ r.decimals = 7 }

BatchHttpResponses ==
  { r \in HttpResponses : r.kind = "network_error" \/ (r.kind = "price" /\ r.price = 16) }

NextBatch ==
  \/ \E c \in BatchClients, ps \in PairLists : CallGetMultiplePrices(c, ps)
  \/ \E resp \in BatchLrdResponses : tool = "batch" /\ OnLatestRoundData(resp)
  \/ \E resp \in BatchDecResponses : tool = "batch" /\ OnDecimals(resp)
  \/ \E resp \in BatchHttpResponses : tool = "batch" /\ OnFetch(resp)
  \/ OnDelayElapsed
  \/ tool = "batch" /\ ToolReturns

SpecBatch == Init /\ [][NextBatch]_vars

\* The two EVM tools: every address string, every response of the RPC
\* endpoint
ActionClients ==
  {NoClient,
   [present |-> TRUE, hasOperator |-> TRUE, accountNum |-> 2,
    strMainnet |-> FALSE, toStringThrows |-> FALSE]}

NextActions ==
  \/ \E c \in ActionClients, a \in AddressStrings : CallCheckProofOfReserve(c, a)
  \/ \E resp \in ReserveRoundResponses : OnReserveLatestRoundData(resp)
  \/ OnReserveTimeout
  \/ \E resp \in ReserveDecimalsResponses : OnReserveDecimals(resp)
  \/ \E resp \in ReserveDescriptionResponses : OnReserveDescription(resp)
  \/ \E r \in Revisions, c \in ActionClients, a \in AddressStrings, id \in AddressStrings,
        fb \in FromBlocks : CallGetCcipMessageStatus(r, c, a, id, fb)
  \/ \E resp \in BlockNumberResponses : OnBlockNumber(resp)
  \/ \E resp \in EventsResponses : OnSendEvents(resp)
  \/ \E resp \in EventsResponses : OnExecuteEvents(resp)
  \/ \E resp \in MessageStatusResponses : OnMessageStatus(resp)
  \/ \E resp \in GetBlockResponses : OnGetBlock(resp)
  \/ tool \in {"reserve", "ccip"} /\ ToolReturns

SpecActions == Init /\ [][NextActions]_vars

\* The envelope builder on its own: every client, every transaction
\* result, with and without a contract address, an operation type, details
NextEnvelope ==
  \/ \E c \in Clients, tx \in Transactions,
        a \in {"", "0xAF685FB45C12b92b5054ccb9313e135525F9b5d5"},
        t \in {"", "proof_of_reserve_check"}, d \in BOOLEAN :
        CallCreateTransparencyInfo(c, tx, a, t, d)
  \/ tool = "envelope" /\ ToolReturns

SpecEnvelope == Init /\ [][NextEnvelope]_vars

(* ------------------------------------------------------------------ *)
(* Properties of the price tool (Spec)                                 *)
(* ------------------------------------------------------------------ *)

ApiSources == {"coingecko-api", "coingecko-api-fallback"}

\* the call has ended (returned or thrown)
Ended == call.pc = "returned"

\* the contract path of the call was entered and one of its steps threw
ContractPathFailed == call.scCalls > 0 /\ call.scError # <<>>

\* the CoinGecko read came back with a positive price
HttpReadSucceeded == call.httpResp.kind = "price" /\ call.httpResp.price > 0

\* the registry of the detected network has a usable entry for the pair
UsableFeed(c, b, q) ==
  LET addr == FeedAddress(detectNetwork(c).network, PairLabel(b, q))
  IN  addr # "" /\ ~IsPlaceholder(addr)

\* C1: with a client and a registered feed, an error of the latestRoundData
\* read, of the decimals read or of the decoding of either is followed by
\* the CoinGecko request; when that read succeeds the call returns an
\* API-sourced result, and what the call throws is never the contract error.
C1_ContractErrorFallsBack ==
  (tool = "price" /\ ContractPathFailed) =>
    /\ call.pc \in {"http", "returned"}
    /\ call.httpCalls = 1
    /\ (Ended /\ HttpReadSucceeded) =>
         /\ call.out.kind = "ok"
         /\ call.out.source \in ApiSources
    /\ (Ended /\ call.out.kind = "err") =>
         /\ call.httpError # <<>>
         /\ call.out.message # call.scError

C1_Witness ==
  /\ tool = "price" /\ Ended
  /\ call.roundData.kind = "ok"
  /\ call.scError = <<"timeout">>
  /\ HttpReadSucceeded
  /\ ret.kind = "ok" /\ ret.source = "coingecko-api-fallback"

\* C2: a contract read is issued only with a client present and a usable
\* (present, not placeholder) registry entry for the pair on the detected
\* network; in every other case the call issues no contract read at any
\* point and a successful result is API-sourced.
C2_ContractReadOnlyWithClientAndFeed ==
  (tool = "price" /\ ~(call.client.present /\ UsableFeed(call.client, call.base, call.quote))) =>
    /\ call.scCalls = 0
    /\ (Ended /\ call.out.kind = "ok") => call.out.source \in ApiSources

C2_Witness ==
  /\ tool = "price" /\ Ended
  /\ call.client.present
  /\ ~UsableFeed(call.client, call.base, call.quote)
  /\ call.scCalls = 0 /\ call.httpCalls = 1
  /\ ret.kind = "ok" /\ ret.source = "coingecko-api-fallback"

\* both paths of the call failed
BothFailed == tool = "price" /\ Ended /\ ContractPathFailed /\ call.httpError # <<>>

C4_InvalidPairNeverReachesNetwork ==
  (tool = "price" /\ (\/ toUpperCase(call.base) \notin DOMAIN COINGECKO_IDS
                      \/ toUpperCase(call.quote) \notin SupportedQuotes)) =>
    /\ call.scCalls = 0
    /\ call.httpCalls = 0
    /\ Ended
    /\ ret.kind = "err"

\* price (in millionths) lies in (0, 10^6]
InSanityRange(price) ==
  /\ price > 0
  /\ \/ price \div 1000000 < 1000000
     \/ (price \div 1000000 = 1000000 /\ price % 1000000 = 0)

\* C5 as stated: a reading with answer <= 0, decimals outside 0..18 or a
\* derived price outside (0, 10^6] is never returned as a contract-sourced
\* price.
C5_InvalidReadingNeverReturned ==
  (tool = "price" /\ Ended /\ ret.kind = "ok" /\ ret.source = "chainlink-hedera-sc") =>
    /\ call.roundData.answer > 0
    /\ call.decimals \in 0..18
    /\ InSanityRange(ret.price)

\* C6 as stated: with a registered feed, when both reads succeed with
\* answer > 0 and decimals in 0..18 the call returns a contract-sourced
\* result without an HTTP request, whose price is answer / 10^decimals
\* rounded to 6 decimals, with the feed's address, the round id and the
\* decimals.
C6_ValidReadingReturned ==
  (/\ tool = "price" /\ Ended
   /\ call.roundData.kind = "ok" /\ call.hasDecimals
   /\ call.roundData.answer > 0
   /\ call.decimals \in 0..18) =>
    /\ ret.kind = "ok"
    /\ ret.source = "chainlink-hedera-sc"
    /\ call.httpCalls = 0
    /\ ret.price = ToFixed6(call.roundData.answer, call.decimals)
    /\ ret.contractAddress = PRICE_FEED_CONTRACTS[call.network][PairLabel(call.base, call.quote)]
    /\ ret.roundId = call.roundData.roundId
    /\ ret.decimals = call.decimals

\* the path of a call: where it waits first, the registry entry and the
\* API asset id and currency it uses, the requests issued, how it ended
Path(f) ==
  [pc |-> f.pc, network |-> f.network, contractAddress |-> f.contractAddress,
   apiId |-> f.apiId, quoteCurrency |-> f.quoteCurrency,
   scCalls |-> f.scCalls, httpCalls |-> f.httpCalls, kind |-> f.out.kind]

\* C7 as stated: a call takes the same path (registry lookup, contract
\* address, API asset id) whatever the case of base and quote.
C7_CaseInsensitive ==
  tool = "price" =>
    Path(Begin(call.client, call.base, call.quote))
      = Path(Begin(call.client, toUpperCase(call.base), toUpperCase(call.quote)))

\* the CoinGecko read came back without a usable price
HttpReadFailed == call.httpResp.kind # "price" \/ call.httpResp.price = 0

TestnetProfile ==
  [network |-> "testnet", rpcEndpoint |-> "https://testnet.hashio.io/api", chainId |-> "296"]

MainnetProfile ==
  [network |-> "mainnet", rpcEndpoint |-> "https://mainnet.hashio.io/api", chainId |-> "295629"]

\* detectNetwork gets as far as client.toString()
ReachesToString(c) ==
  c.present /\ ~(c.hasOperator /\ c.accountNum >= 2 /\ c.accountNum < 1000)

\* C17: for the client of a call, detectNetwork (either revision) yields
\* the testnet profile or the mainnet profile, each whole; it yields the
\* testnet profile when there is no client and when the inspection of the
\* client throws, so no error leaves it; the call uses the detected network.
C17_OneOfTwoProfiles ==
  tool = "price" =>
    LET c == call.client
        p == detectNetwork(c)
        p0 == detectNetworkByString(c)
    IN  /\ p \in {TestnetProfile, MainnetProfile}
        /\ p0 \in {TestnetProfile, MainnetProfile}
        /\ ~c.present => (p = TestnetProfile /\ p0 = TestnetProfile)
        /\ (ReachesToString(c) /\ c.toStringThrows) => p = TestnetProfile
        /\ (c.present /\ c.toStringThrows) => p0 = TestnetProfile
        /\ call.network = p.network

\* a call whose client's toString() throws while its string form would
\* have said mainnet
C17_Witness ==
  /\ tool = "price"
  /\ call.client.present /\ call.client.toStringThrows /\ call.client.strMainnet
  /\ ReachesToString(call.client)
  /\ call.network = "testnet"

\* C16 (for the price tool): every result the call returns, from the
\* contract or from the API on any branch, has a blockchainOperation field.
C16_EveryResultHasEnvelope ==
  (tool = "price" /\ Ended /\ call.out.kind = "ok") =>
    "blockchainOperation" \in call.out.keys

\* the call has returned a result that came from the CoinGecko API
ApiSourced == tool = "price" /\ Ended /\ call.out.kind = "ok" /\ call.out.source \in ApiSources

\* C25: no API-sourced result has a price of 0 or below.
C25_ApiPricePositive ==
  ApiSourced => call.out.price > 0

RegisteredPairs(network) == DOMAIN PRICE_FEED_CONTRACTS[network]

\* C29: both registries hold the same seven pairs, each the USD pair of a
\* base that has a CoinGecko id; so a call whose contract read failed has
\* a base with an id, has issued its HTTP request, and does not end with
\* the id-not-found error.
C29_RegisteredBasesHaveApiId ==
  /\ RegisteredPairs("mainnet") = RegisteredPairs("testnet")
  /\ Cardinality(RegisteredPairs("mainnet")) = 7
  /\ \A p \in RegisteredPairs("mainnet") \cup RegisteredPairs("testnet") :
       \E b \in DOMAIN COINGECKO_IDS : p = PairLabel(b, "USD")
  /\ (tool = "price" /\ call.scCalls > 0) =>
       /\ PairLabel(call.base, call.quote) \in RegisteredPairs(call.network)
       /\ call.base \in DOMAIN COINGECKO_IDS
       /\ ContractPathFailed =>
            /\ call.httpCalls = 1
            /\ ~Includes(call.out.message, <<"CoinGecko ID not found for ">>)
            /\ ~Includes(call.httpError, <<"CoinGecko ID not found for ">>)

\* the contract read of LINK/USD failed and the HTTP request went out
C29_Witness ==
  /\ tool = "price" /\ ContractPathFailed
  /\ call.base = "LINK" /\ call.quote = "USD"
  /\ call.pc = "http" /\ call.httpCalls = 1

(* ------------------------------------------------------------------ *)
(* Properties of the batch tool (SpecBatch)                            *)
(* ------------------------------------------------------------------ *)

\* the pair at position k passes the validation of the loop body
Valid(k) ==
  /\ ~NotNonEmptyString(batch.pairs[k].base)
  /\ ~NotNonEmptyString(batch.pairs[k].quote)

Label(k) == PairLabel(Render(batch.pairs[k].base), Render(batch.pairs[k].quote))

\* the price calls observed for the pair at position k
ObservationsOf(k) == { j \in 1..Len(observed) : observed[j].index = k }

ObservationOf(k) == observed[CHOOSE j \in ObservationsOf(k) : TRUE]

\* C8: the batch never fails: while it runs it is waiting for a price call
\* or for a delay, and it ends by returning a result in which
\* totalRequested is the number of input pairs, successCount the length of
\* results, errorCount the length of errors, and the two counts add up to
\* totalRequested (also when every pair failed).
C8_BatchAlwaysReturnsWithCounts ==
  tool = "batch" =>
    /\ batch.pc \in {"price", "delay", "returned"}
    /\ batch.pc = "returned" <=> bret.kind = "ok"
    /\ bret.kind = "ok" =>
         /\ bret.totalRequested = Len(batch.pairs)
         /\ bret.successCount = Len(bret.results)
         /\ bret.errorCount = Len(bret.errors)
         /\ bret.successCount + bret.errorCount = bret.totalRequested

C8_Witness ==
  /\ tool = "batch" /\ bret.kind = "ok"
  /\ bret.totalRequested >= 2
  /\ bret.successCount = 0
  /\ \E j \in 1..Len(observed) : observed[j].out.kind = "err" /\ observed[j].httpCalls = 1

\* what results and errors must hold after the first k pairs
RECURSIVE ExpectedResults(_)
ExpectedResults(k) ==
  IF k = 0 THEN <<>>
  ELSE IF Valid(k) /\ ObservationOf(k).out.kind = "ok"
       THEN Append(ExpectedResults(k - 1), ObservationOf(k).out)
       ELSE ExpectedResults(k - 1)

RECURSIVE ExpectedErrors(_)
ExpectedErrors(k) ==
  IF k = 0 THEN <<>>
  ELSE IF ~Valid(k)
       THEN Append(ExpectedErrors(k - 1),
                   [pair |-> Label(k),
                    error |-> IF NotNonEmptyString(batch.pairs[k].base)
                              THEN <<"Invalid base symbol: must be a non-empty string">>
                              ELSE <<"Invalid quote symbol: must be a non-empty string">>])
       ELSE IF ObservationOf(k).out.kind = "err"
       THEN Append(ExpectedErrors(k - 1),
                   [pair |-> Label(k), error |-> ObservationOf(k).out.message])
       ELSE ExpectedErrors(k - 1)

\* C9: the batch partitions its input: every pair that passes validation
\* is resolved exactly once, in input order, whatever happened to the pairs
\* before it; results holds the results of the pairs that succeeded and
\* errors the label and message of the pairs that failed validation or
\* resolution, each in input order.
C9_BatchPartitionsInput ==
  (tool = "batch" /\ bret.kind = "ok") =>
    /\ \A k \in 1..Len(batch.pairs) :
         Cardinality(ObservationsOf(k)) = IF Valid(k) THEN 1 ELSE 0
    /\ \A j \in 1..(Len(observed) - 1) : observed[j].index < observed[j + 1].index
    /\ bret.results = ExpectedResults(Len(batch.pairs))
    /\ bret.errors = ExpectedErrors(Len(batch.pairs))

\* [p1, p2, p3] with only p2 failing, in its resolution
C9_Witness ==
  /\ tool = "batch" /\ bret.kind = "ok"
  /\ Len(batch.pairs) = 3
  /\ Len(observed) = 3
  /\ observed[1].out.kind = "ok" /\ observed[2].out.kind = "err" /\ observed[3].out.kind = "ok"
  /\ bret.results = <<observed[1].out, observed[3].out>>
  /\ Len(bret.errors) = 1 /\ bret.errors[1].pair = Label(2)

\* every pair of the batch went through a resolution
AllResolved == \A k \in 1..Len(batch.pairs) : Valid(k)

\* C10 as stated: a batch of n >= 1 pairs that are each resolved incurs
\* n - 1 delays.
C10_DelayOnlyBetween ==
  (tool = "batch" /\ bret.kind = "ok" /\ Len(batch.pairs) >= 1 /\ AllResolved) =>
    batch.delays = Len(batch.pairs) - 1

\* C10 amended: a delay follows every per-pair resolution, the last one
\* included, and no delay follows a pair rejected by validation: a batch of
\* n pairs that are each resolved incurs n delays, and the result is
\* returned after the last of them.
C10_DelayAfterEveryResolution ==
  tool = "batch" =>
    /\ batch.delays = Len(observed)
    /\ bret.kind = "ok" =>
         /\ batch.delays = Cardinality({k \in 1..Len(batch.pairs) : Valid(k)})
         /\ AllResolved => batch.delays = Len(batch.pairs)

C10_Witness ==
  /\ tool = "batch" /\ bret.kind = "ok"
  /\ Len(batch.pairs) = 3 /\ AllResolved
  /\ batch.delays = 3

\* a price call of the batch is waiting for a network collaborator
InFlight == call.pc \in {"lrd", "dec", "http"}

\* C11: the batch resolves its pairs one at a time in input order: a price
\* call is in flight only while the batch awaits it, every pair before the
\* one being resolved has by then been settled (in results or in errors),
\* no call is in flight during the delay or at the return, and the calls
\* end in the order of the input.
C11_OneAtATimeInOrder ==
  tool = "batch" =>
    /\ InFlight =>
         /\ batch.pc = "price"
         /\ Valid(batch.i)
         /\ Len(batch.results) + Len(batch.errors) = batch.i - 1
         /\ \A j \in 1..Len(observed) : observed[j].index < batch.i
    /\ batch.pc \in {"delay", "returned"} => ~InFlight
    /\ \A j \in 1..(Len(observed) - 1) : observed[j].index < observed[j + 1].index

\* the third pair is in flight after the first two were resolved over the network
C11_Witness ==
  /\ tool = "batch" /\ InFlight /\ batch.i = 3
  /\ Len(observed) = 2
  /\ observed[1].scCalls + observed[1].httpCalls > 0
  /\ observed[2].scCalls + observed[2].httpCalls > 0

\* a base or quote that is missing, not a string, empty or only whitespace
Malformed(v) == v.t # "string" \/ v.s \in {"", " "}

\* the message the validation records for the pair at position k
ValidationMessage(k) ==
  IF Malformed(batch.pairs[k].base)
  THEN <<"Invalid base symbol: must be a non-empty string">>
  ELSE <<"Invalid quote symbol: must be a non-empty string">>

\* the positions the loop has gone past
Passed == { k \in 1..Len(batch.pairs) : k < batch.i \/ batch.pc = "returned" }

\* C12: a pair whose base or quote is missing, not a string, empty or only
\* whitespace is rejected before any network call: no price call is ever
\* made for it, it is in errors with its label and the validation message
\* once the loop has passed it, and the loop goes on: at the return every
\* well-formed pair after it has been resolved.
C12_MalformedPairRejected ==
  tool = "batch" =>
    \A k \in 1..Len(batch.pairs) :
      (Malformed(batch.pairs[k].base) \/ Malformed(batch.pairs[k].quote)) =>
        /\ ObservationsOf(k) = {}
        /\ (InFlight \/ batch.pc = "delay") => batch.i # k
        /\ k \in Passed =>
             \E e \in 1..Len(batch.errors) :
               batch.errors[e] = [pair |-> Label(k), error |-> ValidationMessage(k)]
        /\ bret.kind = "ok" =>
             \A m \in (k + 1)..Len(batch.pairs) :
               (~Malformed(batch.pairs[m].base) /\ ~Malformed(batch.pairs[m].quote)) =>
                 Cardinality(ObservationsOf(m)) = 1

\* a whitespace-only quote and a non-string quote rejected, and the pair
\* after them resolved over the network
C12_Witness ==
  /\ tool = "batch" /\ bret.kind = "ok"
  /\ Len(batch.pairs) = 3
  /\ batch.pairs[1].quote = JsString(" ")
  /\ batch.pairs[2].quote = JsNumber
  /\ Len(observed) = 1 /\ observed[1].index = 3 /\ observed[1].httpCalls = 1
  /\ Len(batch.errors) >= 2

(* ------------------------------------------------------------------ *)
(* Properties of the EVM tools (SpecActions)                           *)
(* ------------------------------------------------------------------ *)

\* the proof-of-reserve call has returned a result
ReserveReturned == tool = "reserve" /\ reserve.out.kind = "ok"

\* C13: in every result of the proof-of-reserve tool the status is
\* RESERVES_CONFIRMED when the reserves.value of that result (the answer
\* over 10^decimals, rounded to 6 decimals) is above 0, and
\* RESERVES_DEPLETED otherwise.
C13_StatusMatchesReportedValue ==
  ReserveReturned =>
    reserve.out.status = IF reserve.out.value > 0
                         THEN "RESERVES_CONFIRMED" ELSE "RESERVES_DEPLETED"

\* the CCIP call has returned a result
CcipReturned == tool = "ccip" /\ ccip.out.kind = "ok"

\* both event queries of the CCIP call have answered
EventsKnown == ccip.sendEvents.kind = "ok" /\ ccip.executeEvents.kind = "ok"

\* C14: with an execute event in the scanned range the status returned is
\* EXECUTED with statusCode 3, whether or not a send event was found and
\* whatever the router's status read returned or however it failed; the
\* later revision then returns at once, without reading the router.
C14_ExecutedWhenExecuteEventFound ==
  /\ (CcipReturned /\ ccip.executeEvents.events > 0) =>
       /\ ccip.out.status = "EXECUTED"
       /\ ccip.out.statusCode = 3
  /\ (tool = "ccip" /\ ccip.revision = "execute" /\ EventsKnown
        /\ ccip.executeEvents.events > 0) =>
       /\ CcipReturned
       /\ ccip.statusRead.kind = "pending"

\* send and execute events both found, the router answering FAILED
C14_Witness ==
  /\ CcipReturned
  /\ ccip.sendEvents.events > 0 /\ ccip.executeEvents.events > 0
  /\ ccip.statusRead.kind = "ok" /\ ccip.statusRead.code = 4
  /\ ccip.out.status = "EXECUTED"

\* C15 as stated: without an execute event the status is SENT when a send
\* event was found, and UNKNOWN with statusCode -1 when none was.
C15_SentWhenOnlySendEvent ==
  (CcipReturned /\ ccip.executeEvents.events = 0) =>
    IF ccip.sendEvents.events > 0
    THEN ccip.out.status = "SENT"
    ELSE ccip.out.status = "UNKNOWN" /\ ccip.out.statusCode = -1

\* C15 amended: without an execute event and without a send event the
\* status is UNKNOWN with statusCode -1 and the router is not read; with a
\* send event the router's status is read, the status is SENT when that
\* read fails or returns 1, and otherwise the status of the code returned
\* (2 IN_PROGRESS, 3 SUCCESS, 4 FAILED, any other code UNKNOWN), with that
\* code as statusCode.
C15_SentRefinedByStatusRead ==
  (CcipReturned /\ ccip.executeEvents.events = 0) =>
    IF ccip.sendEvents.events = 0
    THEN /\ ccip.out.status = "UNKNOWN" /\ ccip.out.statusCode = -1
         /\ ccip.statusRead.kind = "pending"
    ELSE /\ ccip.statusRead.kind \in {"ok", "err"}
         /\ ccip.statusRead.kind = "err" =>
              /\ ccip.out.status = "SENT"
              /\ ccip.out.statusCode = IF ccip.revision = "execute" THEN 1 ELSE -1
         /\ ccip.statusRead.kind = "ok" =>
              /\ ccip.out.statusCode = ccip.statusRead.code
              /\ ccip.out.status =
                   CASE ccip.statusRead.code = 1 -> "SENT"
                     [] ccip.statusRead.code = 2 -> "IN_PROGRESS"
                     [] ccip.statusRead.code = 3 -> "SUCCESS"
                     [] ccip.statusRead.code = 4 -> "FAILED"
                     [] OTHER -> "UNKNOWN"

\* only a send event, and the router answers IN_PROGRESS
C15_Witness ==
  /\ CcipReturned
  /\ ccip.sendEvents.events > 0 /\ ccip.executeEvents.events = 0
  /\ ccip.statusRead.kind = "ok" /\ ccip.statusRead.code = 2
  /\ ccip.out.status = "IN_PROGRESS"

\* 0x followed by 40 hex digits
IsHexAddress(a) == a.startsWith0x /\ a.length = 42 /\ a.hex

\* a 0x-prefixed string of the given length
IsPrefixed(a, length) == a.startsWith0x /\ a.length = length

ReserveTimerLive == reserve.roundData.kind = "pending" /\ ~reserve.timerFired

\* C19 (for the proof-of-reserve tool): whenever the call is suspended on
\* its contract reads, a timeout is pending whose expiry ends the wait.
C19_EveryWaitHasTimeout ==
  (tool = "reserve" /\ reserve.pc = "await") => ReserveTimerLive

\* the three reads of the proof-of-reserve call have answered
ReserveReadsAnswered ==
  /\ reserve.roundData.kind = "ok"
  /\ reserve.decimals.kind = "ok"
  /\ reserve.description.kind = "ok"

\* the values read violate a bound: decimals outside 0..18, a negative
\* answer, or reserves above 10^15
ReserveBoundsViolated ==
  /\ ReserveReadsAnswered
  /\ \/ reserve.decimals.decimals < 0 \/ reserve.decimals.decimals > 18
     \/ reserve.roundData.answer.n < 0
     \/ ExceedsSanityBound(reserve.roundData.answer, reserve.decimals.decimals)

\* the messages the catch block substitutes for an error
ReserveTimeoutMessage == <<"Proof of Reserve contract call timed out">>

ReserveCallFailedMessage == <<"Contract call failed - invalid contract or network issue">>

ReserveGenericMessage == <<"Proof of Reserve check failed">>

\* C21: a proof-of-reserve call that fails on a bounds violation delivers a
\* message that is neither the timeout message, nor the contract-call
\* failure message, nor the generic failure message.
C21_BoundsViolationDistinguished ==
  (tool = "reserve" /\ reserve.out.kind = "err" /\ ReserveBoundsViolated) =>
    reserve.out.message \notin
      {ReserveTimeoutMessage, ReserveCallFailedMessage, ReserveGenericMessage}

\* one of the reads of the proof-of-reserve call was rejected (by the RPC
\* endpoint, or by the timer of the race)
ReserveReadRejected ==
  \/ reserve.roundData.kind = "err"
  \/ reserve.decimals.kind = "err"
  \/ reserve.description.kind = "err"

\* C22: when a read of the proof-of-reserve call is rejected, the message
\* delivered to the caller is one of the three fixed messages of the catch
\* block, whatever the text of the error.
C22_InfrastructureErrorsSanitized ==
  (tool = "reserve" /\ reserve.out.kind = "err" /\ ReserveReadRejected) =>
    reserve.out.message \in
      {ReserveTimeoutMessage, ReserveCallFailedMessage, ReserveGenericMessage}

\* C23: the status of every CCIP result is one of the five values of the
\* data model, whatever events were found and whatever code the router's
\* status read returned.
C23_StatusInDataModel ==
  CcipReturned =>
    ccip.out.status \in {"UNKNOWN", "SENT", "IN_PROGRESS", "EXECUTED", "FAILED"}

\* the CCIP call has learnt the latest block and fixed its search range
RangeFixed ==
  \/ CcipReturned
  \/ tool = "ccip" /\ ccip.pc \in {"sendQuery", "executeQuery", "queries", "status",
                                   "sendBlock", "executeBlock"}

\* the start of the range as the claim has it
ExpectedFrom ==
  IF ccip.fromBlock.present THEN ccip.fromBlock.value
  ELSE IF ccip.latestBlock > 1000 THEN ccip.latestBlock - 1000 ELSE 0

\* C24: the range scanned starts at the supplied fromBlock whenever one is
\* supplied (0 included) and at max(latestBlock - 1000, 0) only when none
\* is; the searchRange of the result is that range and blocksSearched is
\* latestBlock - from + 1.
C24_SuppliedFromBlockUsed ==
  /\ RangeFixed => ccip.searchFromBlock = ExpectedFrom
  /\ CcipReturned =>
       /\ ccip.out.searchRange.fromBlock = ExpectedFrom
       /\ ccip.out.searchRange.toBlock = ccip.latestBlock
       /\ ccip.out.searchRange.blocksSearched = ccip.latestBlock - ExpectedFrom + 1

\* C30: in every CCIP result executeDetails is non-null exactly when the
\* status is EXECUTED, and then statusCode is 3; sendDetails is non-null
\* exactly when a send event was found; status SENT comes with statusCode 1.
C30_DetailsAgreeWithStatus ==
  CcipReturned =>
    /\ ccip.out.executeDetails <=> ccip.out.status = "EXECUTED"
    /\ ccip.out.status = "EXECUTED" => ccip.out.statusCode = 3
    /\ ccip.out.sendDetails <=> ccip.sendEvents.events > 0
    /\ ccip.out.status = "SENT" => ccip.out.statusCode = 1

C27_EnvelopeMinimal ==
  (tool = "envelope" /\ envelope.called) =>
    LET op == envelope.operation
        tx == envelope.transactionResult
    IN  /\ {"type", "network", "timestamp"} \subseteq op.keys
        /\ op.keys \subseteq {"type", "network", "timestamp", "contractAddress",
                               "verificationUrl", "transactionId", "hbarFee",
                               "gasUsed", "details"}
        /\ op.type # ""
        /\ op.network \in {"testnet", "mainnet"}
        /\ "contractAddress" \in op.keys <=> envelope.contractAddress # ""
        /\ "transactionId" \in op.keys <=> (tx.present /\ tx.hasTransactionId)
        /\ "hbarFee" \in op.keys <=> (tx.present /\ tx.hasFee /\ ~tx.feeThrows)
        /\ "gasUsed" \in op.keys <=> (tx.present /\ tx.hasGasUsed)
        /\ "details" \in op.keys <=> envelope.hasDetails
        /\ "verificationUrl" \in op.keys
             <=> (envelope.contractAddress # "" \/ (tx.present /\ tx.hasTransactionId))

\* a fee whose conversion throws, for a client whose toString throws: the
\* object is returned without hbarFee, with the other fields of the result
C27_Witness ==
  /\ tool = "envelope" /\ envelope.called
  /\ envelope.client.present /\ envelope.client.toStringThrows
  /\ envelope.transactionResult.hasFee /\ envelope.transactionResult.feeThrows
  /\ envelope.transactionResult.hasGasUsed
  /\ "hbarFee" \notin envelope.operation.keys
  /\ "gasUsed" \in envelope.operation.keys

====
